---- MODULE Spec2Model ----
(***************************************************************************)
(* Model of the zero-copy validating decoder (src/src/heap.rs, lib.rs).    *)
(*                                                                         *)
(* The machine is scaled down: a byte holds ByteRadix values, a usize is   *)
(* PtrSize bytes (little endian), so usize::MAX is ByteRadix^PtrSize - 1.  *)
(* Checked arithmetic keeps that width.  decode is unrolled into one step  *)
(* per segment of code between two calls of Exhume::exhume, with an        *)
(* explicit call stack; `ret` carries a Result back to the caller.         *)
(*                                                                         *)
(* Bit patterns of f32/f64 are modelled as the set of positions of their   *)
(* set bits, so `&` is intersection and `<<` moves positions up.           *)
(***************************************************************************)
EXTENDS Integers, Sequences, FiniteSets, TLC

VARIABLES input, supplied, heap, T, stack, ret, result, reserved, rsv, calls,
          fty, bits, fres

vars == <<input, supplied, heap, T, stack, ret, result, reserved, rsv, calls,
          fty, bits, fres>>

decodeVars == <<input, supplied, heap, T, stack, ret, result, reserved, rsv, calls>>
floatVars == <<fty, bits, fres>>

\* ---------------------------------------------------------------- bounds
MaxLen == 5
ByteRadix == 4

\* ------------------------------------------------------- machine words
PtrSize == 2
UsizeMax == ByteRadix^PtrSize - 1
None == -1

checked_add(a, b) == IF a + b > UsizeMax THEN None ELSE a + b
checked_mul(a, b) == IF a * b > UsizeMax THEN None ELSE a * b

\* ------------------------------------------------------ type descriptors
Leaf(k) == [kind |-> k, of |-> <<>>, n |-> 0]
Unit == Leaf("unit")
U8 == Leaf("u8")
Usize == Leaf("usize")
Bool == Leaf("bool")
ParseError == Leaf("never")
Ref(t) == [kind |-> "ref", of |-> <<t>>, n |-> 0]
Slice(t) == [kind |-> "slice", of |-> <<t>>, n |-> 0]
Array(t, len) == [kind |-> "array", of |-> <<t>>, n |-> len]
Tuple(ts) == [kind |-> "tuple", of |-> ts, n |-> 0]
Range(t) == [kind |-> "range", of |-> <<t>>, n |-> 0]
Wrapping(t) == [kind |-> "wrapping", of |-> <<t>>, n |-> 0]

LeafKinds == {"unit", "u8", "usize", "bool", "never"}
CompositeKinds == {"array", "tuple", "range", "wrapping"}

RootTypes ==
  { Unit, U8, Bool, ParseError,
    Array(Usize, 0), Array(ParseError, 1), Tuple(<<Unit, Unit>>),
    Array(Bool, 2), Range(Bool), Wrapping(Bool),
    Ref(Bool), Ref(Ref(Bool)), Tuple(<<Ref(Bool), Bool>>),
    Slice(Bool), Slice(Unit), Slice(Usize) }

MaxOf(S) == CHOOSE x \in S : \A y \in S : y <= x
RoundUp(x, a) == ((x + a - 1) \div a) * a

RECURSIVE align_of(_)
align_of(t) ==
  CASE t.kind \in {"unit", "u8", "bool", "never"} -> 1
    [] t.kind \in {"usize", "ref", "slice"} -> PtrSize
    [] t.kind \in {"array", "range", "wrapping"} -> align_of(t.of[1])
    [] t.kind = "tuple" ->
         MaxOf({1} \cup {align_of(t.of[i]) : i \in 1..Len(t.of)})

RECURSIVE size_of(_), FieldOffset(_, _)
FieldOffset(t, i) ==
  IF i = 1 THEN 0
  ELSE RoundUp(FieldOffset(t, i - 1) + size_of(t.of[i - 1]), align_of(t.of[i]))

size_of(t) ==
  CASE t.kind \in {"unit", "never"} -> 0
    [] t.kind \in {"u8", "bool"} -> 1
    [] t.kind \in {"usize", "ref"} -> PtrSize
    [] t.kind = "slice" -> 2 * PtrSize
    [] t.kind = "array" -> t.n * size_of(t.of[1])
    [] t.kind = "wrapping" -> size_of(t.of[1])
    [] t.kind = "range" -> 2 * size_of(t.of[1])
    [] t.kind = "tuple" ->
         IF Len(t.of) = 0 THEN 0
         ELSE RoundUp(FieldOffset(t, Len(t.of)) + size_of(t.of[Len(t.of)]),
                      align_of(t))

\* Sub-locations a composite validator visits, in order.
Children(t, addr) ==
  CASE t.kind = "array" ->
         [i \in 1..t.n |-> [ty |-> t.of[1], addr |-> addr + (i - 1) * size_of(t.of[1])]]
    [] t.kind = "tuple" ->
         [i \in 1..Len(t.of) |-> [ty |-> t.of[i], addr |-> addr + FieldOffset(t, i)]]
    [] t.kind = "range" ->
         <<[ty |-> t.of[1], addr |-> addr],
           [ty |-> t.of[1], addr |-> addr + size_of(t.of[1])]>>
    [] t.kind = "wrapping" -> <<[ty |-> t.of[1], addr |-> addr]>>

\* ------------------------------------------------------------ the buffer
ReadByte(mem, a) == mem[a - heap.start + 1]

RECURSIVE read_usize(_, _, _)
read_usize(mem, a, k) ==
  IF k = 0 THEN 0 ELSE ReadByte(mem, a) + ByteRadix * read_usize(mem, a + 1, k - 1)

write_usize(mem, a, v) ==
  [i \in 1..Len(mem) |->
     LET j == (i - 1 + heap.start) - a
     IN IF j >= 0 /\ j < PtrSize THEN (v \div (ByteRadix^j)) % ByteRadix ELSE mem[i]]

is_null(p) == p = 0

\* ----------------------------------------------------------------- Heap
HeapNew(base, len) == [start |-> base, remaining |-> base, end |-> base + len]

\* Variants of the checks of reserve, each a slip the code could have made.
Behind_start(ptr, h) == ptr < h.start
Behind_lenient(ptr, h) == ptr + 1 < h.remaining
Behind(ptr, h) == ptr < h.remaining
Misaligned_bitTest(ptr, align) == (ptr \div align) % 2 # 0
Misaligned(ptr, align) == ptr % align # 0
PastEnd_inclusive(remaining, h) == remaining >= h.end
PastEnd_addressSpace(remaining, h) == remaining > UsizeMax
PastEnd(remaining, h) == remaining > h.end

ReserveErr(h) == [ok |-> FALSE, ptr |-> 0, heap |-> h]

reserve(h, offset, len, size, align) ==
  LET ptr == checked_add(h.start, offset)
      byte_len == checked_mul(len, size)
      remaining == checked_add(ptr, byte_len)
  IN IF ptr = None THEN ReserveErr(h)
     ELSE IF Behind(ptr, h) THEN ReserveErr(h)
     ELSE IF Misaligned(ptr, align) THEN ReserveErr(h)
     ELSE IF byte_len = None THEN ReserveErr(h)
     ELSE IF remaining = None THEN ReserveErr(h)
     ELSE IF PastEnd(remaining, h) THEN ReserveErr(h)
     ELSE [ok |-> TRUE, ptr |-> ptr, heap |-> [h EXCEPT !.remaining = remaining]]

\* Record of the latest call of reserve: arguments, heap before, outcome.
ReserveCall(h, offset, len, size, align, r) ==
  [called |-> TRUE, offset |-> offset, len |-> len, size |-> size, align |-> align,
   pre |-> h, post |-> r.heap, ok |-> r.ok, ptr |-> r.ptr, calls |-> calls]

NoReserveCall ==
  [called |-> FALSE, offset |-> 0, len |-> 0, size |-> 0, align |-> 1,
   pre |-> HeapNew(0, 0), post |-> HeapNew(0, 0), ok |-> FALSE, ptr |-> 0, calls |-> 0]

\* ------------------------------------------------------------ call stack
Frame(t, a) == [ty |-> t, addr |-> a, pc |-> "enter", idx |-> 0, ptr |-> 0, len |-> 0]
Top == stack[Len(stack)]
Pop == SubSeq(stack, 1, Len(stack) - 1)
Call(f, t, a) == Append(Append(Pop, f), Frame(t, a))

\* Variant: the Result of the callee is dropped.
QuestionMark_swallow(r) == FALSE

\* The `?` operator: an Err from the callee returns from the caller at once.
QuestionMark(r) == r = "err"

\* --------------------------------------------------------- leaf validators
LeafValid(t, addr, mem) ==
  CASE t.kind \in {"unit", "u8", "usize"} -> TRUE
    [] t.kind = "bool" -> ReadByte(mem, addr) = 1 \/ ReadByte(mem, addr) = 0
    [] t.kind = "never" -> FALSE

\* ---------------------------------------------------------------- Init
\* Base addresses of the buffer: an odd one, and an even one so high that
\* start + offset can overflow while the buffer still fits below usize::MAX.
Starts == {1, 2 * ((UsizeMax - MaxLen) \div 2)}

Init ==
  /\ T \in RootTypes
  /\ \E n \in 0..MaxLen : input \in [1..n -> 0..(ByteRadix - 1)]
  /\ supplied = input
  /\ \E s \in Starts : heap = HeapNew(s, Len(input))
  /\ stack = <<>>
  /\ ret = "none"
  /\ result = "pending"
  /\ reserved = <<>>
  /\ rsv = NoReserveCall
  /\ calls = 0
  /\ fty = "none" /\ bits = {} /\ fres = "none"

\* -------------------------------------------------------------- actions
decode ==
  /\ result = "pending"
  /\ LET r == reserve(heap, 0, 1, size_of(T), align_of(T))
     IN /\ rsv' = ReserveCall(heap, 0, 1, size_of(T), align_of(T), r)
        /\ IF r.ok
           THEN /\ heap' = r.heap
                /\ reserved' = Append(reserved, [addr |-> r.ptr, bytes |-> size_of(T)])
                /\ stack' = <<Frame(T, r.ptr)>>
                /\ calls' = calls + 1
                /\ result' = "running"
           ELSE /\ result' = "err"
                /\ UNCHANGED <<heap, reserved, stack, calls>>
  /\ UNCHANGED <<input, supplied, T, ret>>
  /\ UNCHANGED floatVars

decode_return ==
  /\ result = "running"
  /\ stack = <<>>
  /\ ret # "none"
  /\ result' = IF QuestionMark(ret) THEN "err" ELSE "ok"
  /\ UNCHANGED <<input, supplied, heap, T, stack, ret, reserved, rsv, calls>>
  /\ UNCHANGED floatVars

exhume_leaf ==
  /\ result = "running"
  /\ stack # <<>>
  /\ Top.ty.kind \in LeafKinds
  /\ ret = "none"
  /\ ret' = IF LeafValid(Top.ty, Top.addr, input) THEN "ok" ELSE "err"
  /\ stack' = Pop
  /\ UNCHANGED <<input, supplied, heap, T, result, reserved, rsv, calls>>
  /\ UNCHANGED floatVars

exhume_composite ==
  /\ result = "running"
  /\ stack # <<>>
  /\ Top.ty.kind \in CompositeKinds
  /\ LET f == Top
         ch == Children(f.ty, f.addr)
     IN IF QuestionMark(ret)
        THEN stack' = Pop /\ ret' = "err" /\ UNCHANGED calls
        ELSE IF f.idx < Len(ch)
        THEN /\ stack' = Call([f EXCEPT !.idx = f.idx + 1],
                              ch[f.idx + 1].ty, ch[f.idx + 1].addr)
             /\ ret' = "none"
             /\ calls' = calls + 1
        ELSE stack' = Pop /\ ret' = "ok" /\ UNCHANGED calls
  /\ UNCHANGED <<input, supplied, heap, T, result, reserved, rsv>>
  /\ UNCHANGED floatVars

exhume_ref ==
  /\ result = "running"
  /\ stack # <<>>
  /\ Top.ty.kind = "ref"
  /\ Top.pc = "enter"
  /\ LET f == Top
         e == f.ty.of[1]
         offset == read_usize(input, f.addr, PtrSize)
         r == reserve(heap, offset, 1, size_of(e), align_of(e))
     IN IF is_null(offset)
        THEN /\ stack' = Pop /\ ret' = "err"
             /\ UNCHANGED <<heap, reserved, rsv, calls>>
        ELSE /\ rsv' = ReserveCall(heap, offset, 1, size_of(e), align_of(e), r)
             /\ IF r.ok
                THEN /\ heap' = r.heap
                     /\ reserved' = Append(reserved, [addr |-> r.ptr, bytes |-> size_of(e)])
                     /\ stack' = Call([f EXCEPT !.pc = "called", !.ptr = r.ptr, !.len = 1],
                                      e, r.ptr)
                     /\ ret' = "none"
                     /\ calls' = calls + 1
                ELSE /\ stack' = Pop /\ ret' = "err"
                     /\ UNCHANGED <<heap, reserved, calls>>
  /\ UNCHANGED <<input, supplied, T, result>>
  /\ UNCHANGED floatVars

\* Variant: the rebind is written before the Result of T::exhume is examined.
exhume_ref_return_rebindFirst ==
  /\ result = "running"
  /\ stack # <<>>
  /\ Top.ty.kind = "ref"
  /\ Top.pc = "called"
  /\ input' = write_usize(input, Top.addr, Top.ptr)
  /\ ret' = IF QuestionMark(ret) THEN "err" ELSE "ok"
  /\ stack' = Pop
  /\ UNCHANGED <<supplied, heap, T, result, reserved, rsv, calls>>
  /\ UNCHANGED floatVars

exhume_ref_return ==
  /\ result = "running"
  /\ stack # <<>>
  /\ Top.ty.kind = "ref"
  /\ Top.pc = "called"
  /\ IF QuestionMark(ret)
     THEN ret' = "err" /\ UNCHANGED input
     ELSE ret' = "ok" /\ input' = write_usize(input, Top.addr, Top.ptr)
  /\ stack' = Pop
  /\ UNCHANGED <<supplied, heap, T, result, reserved, rsv, calls>>
  /\ UNCHANGED floatVars

exhume_slice ==
  /\ result = "running"
  /\ stack # <<>>
  /\ Top.ty.kind = "slice"
  /\ Top.pc = "enter"
  /\ LET f == Top
         e == f.ty.of[1]
         offset == read_usize(input, f.addr, PtrSize)
         len == read_usize(input, f.addr + PtrSize, PtrSize)
         r == reserve(heap, offset, len, size_of(e), align_of(e))
     IN IF is_null(offset)
        THEN /\ stack' = Pop /\ ret' = "err"
             /\ UNCHANGED <<heap, reserved, rsv>>
        ELSE /\ rsv' = ReserveCall(heap, offset, len, size_of(e), align_of(e), r)
             /\ IF r.ok
                THEN /\ heap' = r.heap
                     /\ reserved' = Append(reserved,
                                           [addr |-> r.ptr, bytes |-> len * size_of(e)])
                     /\ stack' = Append(Pop, [f EXCEPT !.pc = "loop", !.ptr = r.ptr,
                                                       !.len = len])
                     /\ ret' = "none"
                ELSE /\ stack' = Pop /\ ret' = "err"
                     /\ UNCHANGED <<heap, reserved>>
  /\ UNCHANGED <<input, supplied, T, result, calls>>
  /\ UNCHANGED floatVars

exhume_slice_loop ==
  /\ result = "running"
  /\ stack # <<>>
  /\ Top.ty.kind = "slice"
  /\ Top.pc = "loop"
  /\ LET f == Top
         e == f.ty.of[1]
     IN IF QuestionMark(ret)
        THEN stack' = Pop /\ ret' = "err" /\ UNCHANGED <<input, calls>>
        ELSE IF f.idx < f.len
        THEN /\ stack' = Call([f EXCEPT !.idx = f.idx + 1], e, f.ptr + f.idx * size_of(e))
             /\ ret' = "none"
             /\ calls' = calls + 1
             /\ UNCHANGED input
        ELSE /\ input' = write_usize(write_usize(input, f.addr, f.ptr),
                                     f.addr + PtrSize, f.len)
             /\ stack' = Pop
             /\ ret' = "ok"
             /\ UNCHANGED calls
  /\ UNCHANGED <<supplied, heap, T, result, reserved, rsv>>
  /\ UNCHANGED floatVars

Next ==
  \/ decode
  \/ decode_return
  \/ exhume_leaf
  \/ exhume_composite
  \/ exhume_ref
  \/ exhume_ref_return
  \/ exhume_slice
  \/ exhume_slice_loop

Spec == Init /\ [][Next]_vars

\* ------------------------------------------------------- float validators
\* A word is the set of positions of its set bits.
BitAnd(a, b) == a \cap b
Shl(a, n, width) == {i + n : i \in a} \cap (0..(width - 1))
Lit_0x1FF == 0..8
Lit_0x3FFFFF == 0..21
Lit_0xFFF == 0..11
Lit_0xFFFFFFFFFFFFF == 0..51

f32_exhume(b) ==
  IF BitAnd(b, Shl(Lit_0x1FF, 22, 32)) = Shl(Lit_0x1FF, 22, 32)
     /\ BitAnd(b, Lit_0x3FFFFF) # {}
  THEN "err" ELSE "ok"

f64_exhume(b) ==
  IF BitAnd(b, Shl(Lit_0xFFF, 51, 64)) = Shl(Lit_0xFFF, 51, 64)
     /\ BitAnd(b, Lit_0xFFFFFFFFFFFFF) # {}
  THEN "err" ELSE "ok"

\* sign, exponent (all ones, one bit short, lowest bit only, zero), quiet
\* bit, and a payload over the lowest two and the highest mantissa bits.
F32Patterns ==
  { s \cup e \cup q \cup p :
      s \in SUBSET {31}, e \in {23..30, 24..30, {23}, {}},
      q \in SUBSET {22}, p \in SUBSET {0, 1, 21} }

F64Patterns ==
  { s \cup e \cup q \cup p :
      s \in SUBSET {63}, e \in {52..62, 53..62, {52}, {}},
      q \in SUBSET {51}, p \in SUBSET {0, 1, 50} }

FloatInit ==
  /\ fty \in {"f32", "f64"}
  /\ bits \in (IF fty = "f32" THEN F32Patterns ELSE F64Patterns)
  /\ fres = "pending"
  /\ T = Unit
  /\ input = <<>>
  /\ supplied = <<>>
  /\ heap = HeapNew(1, 0)
  /\ stack = <<>>
  /\ ret = "none"
  /\ result = "idle"
  /\ reserved = <<>>
  /\ rsv = NoReserveCall
  /\ calls = 0

exhume_f32 ==
  /\ fty = "f32"
  /\ fres = "pending"
  /\ fres' = f32_exhume(bits)
  /\ UNCHANGED <<fty, bits>>
  /\ UNCHANGED decodeVars

exhume_f64 ==
  /\ fty = "f64"
  /\ fres = "pending"
  /\ fres' = f64_exhume(bits)
  /\ UNCHANGED <<fty, bits>>
  /\ UNCHANGED decodeVars

FloatNext == exhume_f32 \/ exhume_f64

FloatSpec == FloatInit /\ [][FloatNext]_vars

\* ================================================================ claims

\* C1: the byte ranges of all reservations that succeeded during one decode
\* (the root's and every one made by a reference or slice validator) are
\* pairwise disjoint.
C1_ReservationsDisjoint ==
  \A i, j \in 1..Len(reserved) :
    i < j =>
      (reserved[i].addr..(reserved[i].addr + reserved[i].bytes - 1))
        \cap (reserved[j].addr..(reserved[j].addr + reserved[j].bytes - 1)) = {}

\* Three non-empty regions were reserved and the decode succeeded.
C1_Witness ==
  /\ result = "ok"
  /\ Len(reserved) >= 3
  /\ \A i \in 1..Len(reserved) : reserved[i].bytes > 0

\* C2: reserve fails exactly when start+offset overflows, is behind the
\* high-water mark or is misaligned, or count*element_size overflows, or the
\* region's end overflows or exceeds end; otherwise it succeeds, returns
\* start+offset and moves the high-water mark to the region's end.  A slice
\* whose count*element_size overflows is rejected with no element validated.
C2_ReserveContract ==
  rsv.called =>
    LET addr == rsv.pre.start + rsv.offset
        bytes == rsv.len * rsv.size
        fails == \/ addr > UsizeMax
                 \/ addr < rsv.pre.remaining
                 \/ addr % rsv.align # 0
                 \/ bytes > UsizeMax
                 \/ addr + bytes > UsizeMax
                 \/ addr + bytes > rsv.pre.end
    IN /\ rsv.ok <=> ~fails
       /\ rsv.ok => /\ rsv.ptr = addr
                    /\ rsv.post.remaining = addr + bytes
                    /\ heap.remaining >= addr + bytes
                    /\ \E i \in 1..Len(reserved) :
                         reserved[i] = [addr |-> addr, bytes |-> bytes]
       /\ ~rsv.ok => heap = rsv.pre
       /\ bytes > UsizeMax => ~rsv.ok /\ calls = rsv.calls

\* A slice's count*element_size overflowed and the reservation was refused.
C2_Witness ==
  /\ rsv.called
  /\ rsv.len * rsv.size > UsizeMax
  /\ rsv.pre.start + rsv.offset >= rsv.pre.remaining
  /\ ~rsv.ok

\* C3: start <= high_water <= end in every state of a decode, and the
\* high-water mark never decreases from one state to the next.
C3_HighWaterBounded ==
  /\ [](heap.start <= heap.remaining /\ heap.remaining <= heap.end)
  /\ [][heap'.remaining >= heap.remaining /\ heap'.start = heap.start
        /\ heap'.end = heap.end]_vars

\* Two reservations succeeded, a later one failed.
C3_Witness ==
  /\ Len(reserved) >= 2
  /\ rsv.called /\ ~rsv.ok
  /\ heap.remaining > heap.start

\* C4: each successful reservation starts at or after the start and the end
\* of every earlier one, and a stored offset that points behind an already
\* reserved region is rejected.
C4_StartsNonDecreasing ==
  /\ \A i, j \in 1..Len(reserved) :
       i < j => /\ reserved[j].addr >= reserved[i].addr
                /\ reserved[j].addr >= reserved[i].addr + reserved[i].bytes
  /\ (rsv.called /\ rsv.pre.start + rsv.offset < rsv.pre.remaining) =>
       (~rsv.ok /\ ret = "err")

\* A reference stored an offset behind two earlier regions and was refused.
C4_Witness ==
  /\ Len(reserved) >= 2
  /\ rsv.called
  /\ rsv.pre.start + rsv.offset < rsv.pre.remaining
  /\ ret = "err"

\* C5: the f32 validator fails iff all 8 exponent bits (23..30) are set, the
\* mantissa (bits 0..22) is nonzero and the quiet bit (22) is clear.
C5_F32FailsIffSignalingNaN ==
  (fty = "f32" /\ fres # "pending") =>
    (fres = "err" <=> ((23..30) \subseteq bits /\ bits \cap (0..22) # {} /\ 22 \notin bits))

\* C6: the f64 validator fails iff all 11 exponent bits (52..62) are set, the
\* mantissa (bits 0..51) is nonzero and the quiet bit (51) is clear.
C6_F64FailsIffSignalingNaN ==
  (fty = "f64" /\ fres # "pending") =>
    (fres = "err" <=> ((52..62) \subseteq bits /\ bits \cap (0..51) # {} /\ 51 \notin bits))

\* Number of validators one value of type t runs, indirections followed once.
RECURSIVE TypeNodes(_)
TypeNodes(t) ==
  CASE t.kind \in LeafKinds -> 1
    [] t.kind \in {"ref", "slice", "wrapping"} -> 1 + TypeNodes(t.of[1])
    [] t.kind = "array" -> 1 + t.n * TypeNodes(t.of[1])
    [] t.kind = "range" -> 1 + 2 * TypeNodes(t.of[1])
    [] t.kind = "tuple" ->
         1 + Len(t.of) * MaxOf({TypeNodes(t.of[i]) : i \in 1..Len(t.of)})

\* C7: the number of validator invocations of a decode is bounded by a
\* linear function of the buffer length, zero-size slice elements included.
C7_InvocationsLinear ==
  calls <= TypeNodes(T) * (Len(supplied) + 1)

\* C8: once a sub-validator or a reservation has failed, no validator is
\* invoked, no reservation made, no rebind written, and decode returns a
\* failure, never a view.
C8_FirstFailureAborts ==
  [][(ret = "err" \/ result = "err") =>
       /\ calls' = calls
       /\ reserved' = reserved
       /\ heap' = heap
       /\ input' = input
       /\ ret' = ret
       /\ Len(stack') <= Len(stack)
       /\ result' # "ok"
       /\ (stack = <<>> => result' = "err")]_vars

\* A composite's sub-validator failed while positions were still unvisited.
C8_Witness ==
  /\ ret = "err"
  /\ stack # <<>>
  /\ Top.ty.kind \in CompositeKinds
  /\ Top.idx < Len(Children(Top.ty, Top.addr))

\* Does the zero-size type t hold a value of the never type?
RECURSIVE HoldsNever(_)
HoldsNever(t) ==
  CASE t.kind = "never" -> TRUE
    [] t.kind \in {"unit", "u8", "usize", "bool", "ref", "slice"} -> FALSE
    [] t.kind = "array" -> t.n > 0 /\ HoldsNever(t.of[1])
    [] OTHER -> \E i \in 1..Len(t.of) : HoldsNever(t.of[i])

\* C9 as stated: decode of any zero-size root type succeeds against an empty
\* buffer, whatever the type's alignment and the buffer's base address.
C9_ZeroSizeRootSucceeds ==
  (size_of(T) = 0 /\ Len(supplied) = 0 /\ result \in {"ok", "err"}) => result = "ok"

\* C9 amended: decode of a zero-size root type against an empty buffer
\* succeeds exactly when the base address is a multiple of the type's
\* alignment and the type holds no value of the never type.
C9_ZeroSizeRootAligned ==
  (size_of(T) = 0 /\ Len(supplied) = 0 /\ result \in {"ok", "err"}) =>
    (result = "ok" <=> (heap.start % align_of(T) = 0 /\ ~HoldsNever(T)))

\* A zero-size root with alignment above one decoded from an empty buffer.
C9_Witness ==
  /\ size_of(T) = 0
  /\ align_of(T) > 1
  /\ Len(supplied) = 0
  /\ result = "ok"

====
